---- MODULE Spec2Model ----
(***************************************************************************)
(* Model of the GICS Python IPC client (clients/python/gics_client.py):   *)
(* request-id allocation, token resolution, the Unix-socket connection    *)
(* pool, the retry loop of GICSClient._call and GICSClient.close, run by   *)
(* concurrent caller threads against a daemon reached over stream sockets. *)
(***************************************************************************)
EXTENDS Integers, Sequences, FiniteSets, TLC

\* ---------------------------------------------------------------- bounds
NumThreads == 2          \* concurrent caller threads
MaxEvents == 3           \* calls, close() invocations and faults in one behaviour
MaxConns == 2            \* connections open at the same time
MaxRetriesCfg == 1       \* max_retries is drawn from 0..MaxRetriesCfg
MaxPoolCfg == 1          \* pool_size argument is drawn from 0..MaxPoolCfg
MaxKvCalls == 4          \* put/get/delete/scan calls of the key-value caller
MaxChunks == 2           \* chunks of an unfinished line the buffer tells apart
MaxStale == 2            \* idle connections the daemon closed; retries tried with them

Threads == 1..NumThreads
Conns == 1..MaxConns
NoConn == 0              \* Python None for a socket variable
Free == 0                \* a lock nobody holds
Closer == NumThreads + 1 \* the thread that runs close()

\* ------------------------------------------------------- strings, tokens
Chars == {" ", "a", "b"}
Whitespace == {" "}

NoToken == [some |-> FALSE, v |-> <<>>]
Tok(str) == [some |-> TRUE, v |-> str]
\* Python truthiness of self._token: None and "" are falsy
Truthy(tk) == tk.some /\ tk.v # <<>>

RECURSIVE LStrip(_)
LStrip(str) ==
    IF str = <<>> THEN str
    ELSE IF Head(str) \in Whitespace THEN LStrip(Tail(str)) ELSE str

RECURSIVE RStrip(_)
RStrip(str) ==
    IF str = <<>> THEN str
    ELSE IF str[Len(str)] \in Whitespace
         THEN RStrip(SubSeq(str, 1, Len(str) - 1)) ELSE str

\* str.strip()
Strip(str) == RStrip(LStrip(str))

\* the candidate paths of _get_token, in probing order:
\* 1 = ./.gics_token, 2 = ~/.gics_token, 3 = ../.gics_token
Paths == 1..3
Absent == [exists |-> FALSE, content |-> <<>>]
File(str) == [exists |-> TRUE, content |-> str]

\* index of the first path for which os.path.exists holds, 0 when there is none
FirstExisting(fs) ==
    IF \E p \in Paths : fs[p].exists
    THEN CHOOSE p \in Paths :
             fs[p].exists /\ \A q \in Paths : fs[q].exists => p <= q
    ELSE 0

\* _get_token probing the files before it looks at self._token
GetTokenFilesFirst(tk, fs) ==
    LET p == FirstExisting(fs) IN
    IF p # 0
    THEN [ret |-> Tok(Strip(fs[p].content)),
          cache |-> Tok(Strip(fs[p].content)), read |-> p]
    ELSE [ret |-> tk, cache |-> tk, read |-> 0]

\* _get_token: the value returned, the new self._token, and the path it read
GetToken(tk, fs) ==
    IF Truthy(tk) THEN [ret |-> tk, cache |-> tk, read |-> 0]
    ELSE LET p == FirstExisting(fs) IN
         IF p # 0
         THEN [ret |-> Tok(Strip(fs[p].content)),
               cache |-> Tok(Strip(fs[p].content)), read |-> p]
         ELSE [ret |-> NoToken, cache |-> tk, read |-> 0]

\* -------------------------------------------------------------- wire data
\* what the daemon can put on a response line: a result, an error envelope,
\* text that is not JSON, bytes that are not UTF-8
Kinds == {"result", "error", "badjson", "badutf8"}
\* the items of a receive buffer: the newline, a line's bytes, and the first
\* bytes of a line that arrived in an earlier chunk
Nl == [t |-> "nl", id |-> 0, kind |-> "nl"]
Body(id, kind) == [t |-> "body", id |-> id, kind |-> kind]
Part == [t |-> "part", id |-> 0, kind |-> "part"]

\* the error envelope the daemon builds for request id
ErrCode(id) == 100 + id

\* buffer.split(b'\n')[0]: the items before the first newline
RECURSIVE FirstLine(_)
FirstLine(buf) ==
    IF buf = <<>> THEN <<>>
    ELSE IF Head(buf).t = "nl" THEN <<>>
    ELSE <<Head(buf)>> \o FirstLine(Tail(buf))

\* b'\n' in buffer
HasNl(buf) == \E i \in 1..Len(buf) : buf[i].t = "nl"

\* the items of a line that carry its content
Bodies(line) == {i \in 1..Len(line) : line[i].t = "body"}

\* response_line.decode('utf-8') then json.loads: what the line decodes to
\* "ok" a JSON value, "json" JSONDecodeError, "utf8" UnicodeDecodeError
Decode(line) ==
    IF \E i \in Bodies(line) : line[i].kind = "badutf8" THEN "utf8"
    ELSE IF /\ Cardinality(Bodies(line)) = 1
            /\ \A i \in Bodies(line) : line[i].kind \in {"result", "error"}
         THEN "ok"
    ELSE "json"

\* the dict json.loads returns for a well-formed line
Parse(line) ==
    LET b == line[CHOOSE i \in Bodies(line) : TRUE] IN
    [id |-> b.id, error |-> IF b.kind = "error" THEN ErrCode(b.id) ELSE 0]

\* a dict without keys; None; no key-value call made yet
EmptyDict == [k \in {} |-> ""]
Null == [null |-> TRUE]
NoKv == [op |-> "none", key |-> <<>>, ok |-> FALSE, rec |-> Null, items |-> {}]

NoResult == [status |-> "none", id |-> 0, respId |-> 0, code |-> 0,
             err |-> "none", attempts |-> 0, errAt |-> 0, sleeps |-> 0]

VARIABLES
    cfgToken,        \* the token argument of __init__
    token,           \* self._token
    files,           \* the candidate token files
    fileReads,       \* number of token files opened so far
    fsWrites,        \* token files created, rewritten or removed so far
    request_id,      \* self._request_id
    request_id_lock, \* holder of self._request_id_lock
    max_retries,     \* self._max_retries
    cfgPoolSize,     \* the pool_size argument of __init__
    pool_size,       \* self._pool_size
    pool,            \* self._pool
    pool_lock,       \* holder of self._pool_lock
    pc,              \* where each caller thread is
    frame,           \* locals of each thread's _call
    result,          \* outcome of each thread's last finished call
    started,         \* calls started so far
    assigned,        \* the ids _next_request_id has returned, in order
    cpc,             \* where the close() thread is
    sockets,         \* local list of close()
    closes,          \* close() invocations so far
    faults,          \* transport incidents so far: failures, split answers
    conn,            \* per connection: client end open, daemon end closed, data
    store,           \* the daemon's key-value store
    written,         \* what the caller has put and not deleted since
    kv               \* the last put/get/delete/scan and what it returned

cfgVars == <<cfgToken, files, max_retries, cfgPoolSize, pool_size>>
tokenVars == <<token, fileReads, fsWrites>>
idVars == <<request_id, request_id_lock>>
poolVars == <<pool, pool_lock>>
clientVars == <<cfgVars, tokenVars, idVars, poolVars>>
callVars == <<pc, frame, result, started, assigned>>
closeVars == <<cpc, sockets, closes>>
netVars == <<faults, conn>>
kvVars == <<store, written, kv>>
vars == <<clientVars, callVars, closeVars, netVars, kvVars>>

NoFrame == [rid |-> 0, request |-> [id |-> 0, token |-> NoToken], attempt |-> 0,
            s |-> NoConn, healthy |-> TRUE, buffer |-> <<>>, fromPool |-> FALSE,
            pend |-> "none", err |-> "none", errAt |-> 0,
            resp |-> [id |-> 0, error |-> 0], sleeps |-> 0]

\* a connection slot: open = the client end is open, peerClosed = the daemon
\* closed its end, inq = requests the daemon has not answered yet, eof = recv
\* returned b"" on it, old = it was open when close() swapped the pool out
NoConnState == [open |-> FALSE, peerClosed |-> FALSE, inq |-> <<>>,
                eof |-> FALSE, old |-> FALSE]

Max(a, b) == IF a > b THEN a ELSE b

\* __init__ with the given arguments
InitWith(tk, fs, r, psz) ==
    /\ cfgToken = tk
    /\ token = tk
    /\ files = fs
    /\ fileReads = 0
    /\ fsWrites = 0
    /\ request_id = 1
    /\ request_id_lock = Free
    /\ max_retries = r
    /\ cfgPoolSize = psz
    /\ pool_size = Max(1, psz)
    /\ pool = <<>>
    /\ pool_lock = Free
    /\ pc = [t \in Threads |-> "idle"]
    /\ frame = [t \in Threads |-> NoFrame]
    /\ result = [t \in Threads |-> NoResult]
    /\ started = 0
    /\ assigned = <<>>
    /\ cpc = "idle"
    /\ sockets = <<>>
    /\ closes = 0
    /\ faults = 0
    /\ conn = [c \in Conns |-> NoConnState]
    /\ store = EmptyDict
    /\ written = EmptyDict
    /\ kv = NoKv

NoFiles == [p \in Paths |-> Absent]

\* the (max_retries, pool_size) arguments tried: every retry count with the
\* largest pool, every pool size without retries
Configs ==
    {<<r, MaxPoolCfg>> : r \in 0..MaxRetriesCfg}
        \cup {<<0, psz>> : psz \in 0..MaxPoolCfg}

\* a client built with an explicit token, no token file around
Init == \E cf \in Configs : InitWith(Tok(<<"a">>), NoFiles, cf[1], cf[2])

\* the token arguments and the token files a client may find
TokenArgs == {NoToken, Tok(<<>>), Tok(<<" ", "a">>)}
\* what each candidate file holds when it exists: a token after a blank, only
\* a blank, a token before a blank
Contents == << <<" ", "a">>, <<" ">>, <<"b", " ">> >>
FileConfigs ==
    {[p \in Paths |-> IF p \in S THEN File(Contents[p]) ELSE Absent] :
        S \in SUBSET Paths}

\* clients of every token configuration, on a transport without faults
InitToken ==
    \E tk \in TokenArgs, fs \in FileConfigs :
        /\ InitWith(tk, fs, 0, 1)

\* clients with and without a token argument that find at most one token file
\* when they are built; the files change later
InitFs ==
    \E tk \in {NoToken, Tok(<<" ", "a">>)}, fs \in FileConfigs :
        /\ Cardinality({p \in Paths : fs[p].exists}) <= 1
        /\ InitWith(tk, fs, 0, 1)

\* a connection the daemon has closed while the client still has it open
StaleConn == [NoConnState EXCEPT !.open = TRUE, !.peerClosed = TRUE]

\* a client whose earlier calls took the ids 1..k and left k connections in
\* the idle pool, all of which the daemon has closed since: the k closes are
\* the incidents counted so far, the calls counted are the ones made from now
InitStale ==
    \E k \in 0..MaxStale, r \in 0..MaxStale, psz \in 0..MaxStale :
        /\ k <= MaxConns
        /\ k <= Max(1, psz)
        /\ cfgToken = Tok(<<"a">>)
        /\ token = Tok(<<"a">>)
        /\ files = NoFiles
        /\ fileReads = 0
        /\ fsWrites = 0
        /\ request_id = k + 1
        /\ request_id_lock = Free
        /\ max_retries = r
        /\ cfgPoolSize = psz
        /\ pool_size = Max(1, psz)
        /\ pool = [i \in 1..k |-> i]
        /\ pool_lock = Free
        /\ pc = [t \in Threads |-> "idle"]
        /\ frame = [t \in Threads |-> NoFrame]
        /\ result = [t \in Threads |-> NoResult]
        /\ started = 0
        /\ assigned = [i \in 1..k |-> i]
        /\ cpc = "idle"
        /\ sockets = <<>>
        /\ closes = 0
        /\ faults = k
        /\ conn = [c \in Conns |-> IF c <= k THEN StaleConn ELSE NoConnState]
        /\ store = EmptyDict
        /\ written = EmptyDict
        /\ kv = NoKv

\* ------------------------------------------------------------ call frames
SetFrame(t, f) == frame' = [frame EXCEPT ![t] = f]
Goto(t, label) == pc' = [pc EXCEPT ![t] = label]
Last(seq) == seq[Len(seq)]

\* close the client end of connection c
CloseConn(cs, c) == [cs EXCEPT ![c] = NoConnState]

\* _unwrap_result applied to the response _call returned
UnwrapResult(f, resp) ==
    IF resp.error # 0
    THEN [status |-> "app_error", id |-> f.request.id, respId |-> resp.id,
          code |-> resp.error, err |-> "none", attempts |-> f.attempt + 1,
          errAt |-> 0, sleeps |-> f.sleeps]
    ELSE [status |-> "result", id |-> f.request.id, respId |-> resp.id,
          code |-> 0, err |-> "none", attempts |-> f.attempt + 1,
          errAt |-> 0, sleeps |-> f.sleeps]

\* the exception that leaves _call
Raised(f) ==
    [status |-> "raised", id |-> f.request.id, respId |-> 0, code |-> 0,
     err |-> f.err, attempts |-> f.attempt + 1, errAt |-> f.errAt,
     sleeps |-> f.sleeps]

\* "attempt <= max_retries" instead of "<": a sleep follows the last attempt too
AfterAttemptSleepsAgain(t, f) ==
    IF f.pend = "return"
    THEN /\ result' = [result EXCEPT ![t] = UnwrapResult(f, f.resp)]
         /\ SetFrame(t, NoFrame)
         /\ Goto(t, "idle")
    ELSE IF f.pend = "retry" /\ f.attempt <= max_retries
    THEN /\ SetFrame(t, [f EXCEPT !.s = NoConn])
         /\ Goto(t, "sleep")
         /\ UNCHANGED result
    ELSE /\ result' = [result EXCEPT ![t] = Raised(f)]
         /\ SetFrame(t, NoFrame)
         /\ Goto(t, "idle")

\* _call after the finally clause of one attempt: return the response, or
\* handle the exception (lines 168-173), or let it propagate
AfterAttempt(t, f) ==
    IF f.pend = "return"
    THEN /\ result' = [result EXCEPT ![t] = UnwrapResult(f, f.resp)]
         /\ SetFrame(t, NoFrame)
         /\ Goto(t, "idle")
    ELSE IF f.pend = "retry" /\ f.attempt < max_retries
    THEN /\ SetFrame(t, [f EXCEPT !.s = NoConn])
         /\ Goto(t, "sleep")
         /\ UNCHANGED result
    ELSE /\ result' = [result EXCEPT ![t] = Raised(f)]
         /\ SetFrame(t, NoFrame)
         /\ Goto(t, "idle")

\* what the callers and the environment have done to the client so far: calls
\* of _call, calls of close(), transport incidents, writes to token files
Events == started + closes + faults + fsWrites

\* the environment causes one more transport incident
Fault == Events < MaxEvents /\ faults' = faults + 1

\* the frame after an exception of kind e was raised in the current attempt
Fail(f, e, retry) ==
    [f EXCEPT !.pend = IF retry THEN "retry" ELSE "fatal", !.err = e,
              !.errAt = f.attempt]

\* --------------------------------------------------- _next_request_id
\* A call starts by entering _next_request_id. Callers are interchangeable, so
\* a new call runs on the first caller that is not inside _call.

\* _next_request_id without "with self._request_id_lock"
NextRequestIdEnterNoLock(t) ==
    /\ pc[t] = "idle"
    /\ Events < MaxEvents
    /\ \A u \in Threads : u < t => pc[u] # "idle"
    /\ request_id_lock' = t
    /\ started' = started + 1
    /\ SetFrame(t, [NoFrame EXCEPT !.rid = request_id])
    /\ result' = [result EXCEPT ![t] = NoResult]
    /\ Goto(t, "id_locked")
    /\ UNCHANGED <<kvVars, cfgVars, tokenVars, poolVars, request_id, assigned,
                   closeVars, netVars>>

NextRequestIdEnter(t) ==
    /\ pc[t] = "idle"
    /\ Events < MaxEvents
    /\ \A u \in Threads : u < t => pc[u] # "idle"
    /\ request_id_lock = Free
    /\ request_id_lock' = t
    /\ started' = started + 1
    /\ SetFrame(t, [NoFrame EXCEPT !.rid = request_id])
    /\ result' = [result EXCEPT ![t] = NoResult]
    /\ Goto(t, "id_locked")
    /\ UNCHANGED <<kvVars, cfgVars, tokenVars, poolVars, request_id, assigned,
                   closeVars, netVars>>

NextRequestIdExit(t) ==
    /\ pc[t] = "id_locked"
    /\ request_id' = request_id + 1
    /\ request_id_lock' = Free
    /\ assigned' = Append(assigned, frame[t].rid)
    /\ SetFrame(t, [frame[t] EXCEPT !.request.id = frame[t].rid])
    /\ Goto(t, "build")
    /\ UNCHANGED <<kvVars, cfgVars, tokenVars, poolVars, result, started,
                   closeVars,
                   netVars>>

\* the rest of the request dict: "token": self._get_token(), then the payload
BuildRequest(t) ==
    /\ pc[t] = "build"
    /\ LET g == GetToken(token, files) IN
        /\ token' = g.cache
        /\ fileReads' = fileReads + (IF g.read # 0 THEN 1 ELSE 0)
        /\ SetFrame(t, [frame[t] EXCEPT !.request.token = g.ret, !.attempt = 0])
    /\ Goto(t, "acquire")
    /\ UNCHANGED <<kvVars, cfgVars, fsWrites, idVars, poolVars, result, started,
                   assigned, closeVars, netVars>>

\* _get_token without the test of self._token: every call probes the files
GetTokenCheckNoCache(t) ==
    /\ pc[t] = "build"
    /\ Goto(t, "probe")
    /\ UNCHANGED <<kvVars, cfgVars, tokenVars, idVars, poolVars, frame, result,
                   started, assigned, closeVars, netVars>>

\* _get_token statement by statement, for clients whose token files change
\* while they run. Line 54: self._token is read; a truthy one is returned
GetTokenCheck(t) ==
    /\ pc[t] = "build"
    /\ IF Truthy(token)
       THEN /\ SetFrame(t, [frame[t] EXCEPT !.request.token = token,
                                            !.attempt = 0])
            /\ Goto(t, "acquire")
       ELSE /\ Goto(t, "probe")
            /\ UNCHANGED frame
    /\ UNCHANGED <<kvVars, cfgVars, tokenVars, idVars, poolVars, result,
                   started,
                   assigned, closeVars, netVars>>

\* lines 58-68: the first existing candidate file is read, stripped, stored
\* in self._token and returned; None is returned when there is no file
GetTokenProbe(t) ==
    /\ pc[t] = "probe"
    /\ LET p == FirstExisting(files)
           found == Tok(Strip(files[p].content))
       IN IF p # 0
          THEN /\ token' = found
               /\ fileReads' = fileReads + 1
               /\ SetFrame(t, [frame[t] EXCEPT !.request.token = found,
                                               !.attempt = 0])
          ELSE /\ UNCHANGED <<token, fileReads>>
               /\ SetFrame(t, [frame[t] EXCEPT !.request.token = NoToken,
                                               !.attempt = 0])
    /\ Goto(t, "acquire")
    /\ UNCHANGED <<kvVars, cfgVars, fsWrites, idVars, poolVars, result, started,
                   assigned, closeVars, netVars>>

\* what a candidate path can hold
FileStates == {Absent} \cup {File(Contents[q]) : q \in Paths}

\* somebody creates, rewrites or removes the token file at path p
FsChange(p, f) ==
    /\ Events < MaxEvents
    /\ f # files[p]
    /\ files' = [files EXCEPT ![p] = f]
    /\ fsWrites' = fsWrites + 1
    /\ UNCHANGED <<kvVars, cfgToken, max_retries, cfgPoolSize, pool_size, token,
                   fileReads, idVars, poolVars, callVars, closeVars, netVars>>

\* ------------------------------------------------ _acquire_unix_socket
AcquireEnter(t) ==
    /\ pc[t] = "acquire"
    /\ pool_lock = Free
    /\ pool_lock' = t
    /\ Goto(t, "acq_locked")
    /\ UNCHANGED <<kvVars, cfgVars, tokenVars, idVars, pool, frame, result,
                   started,
                   assigned, closeVars, netVars>>

\* pool[-1] instead of pool.pop(): the socket stays in the idle list
AcquireExitNoPop(t) ==
    /\ pc[t] = "acq_locked"
    /\ pool_lock' = Free
    /\ UNCHANGED pool
    /\ IF pool # <<>>
       THEN /\ SetFrame(t, [frame[t] EXCEPT !.s = Last(pool), !.fromPool = TRUE,
                                            !.healthy = TRUE])
            /\ Goto(t, "send")
       ELSE /\ SetFrame(t, [frame[t] EXCEPT !.fromPool = FALSE,
                                            !.healthy = TRUE])
            /\ Goto(t, "open")
    /\ UNCHANGED <<kvVars, cfgVars, tokenVars, idVars, result, started,
                   assigned,
                   closeVars, netVars>>

AcquireExit(t) ==
    /\ pc[t] = "acq_locked"
    /\ pool_lock' = Free
    /\ IF pool # <<>>
       THEN /\ pool' = SubSeq(pool, 1, Len(pool) - 1)
            /\ SetFrame(t, [frame[t] EXCEPT !.s = Last(pool), !.fromPool = TRUE,
                                            !.healthy = TRUE])
            /\ Goto(t, "send")
       ELSE /\ UNCHANGED pool
            /\ SetFrame(t, [frame[t] EXCEPT !.fromPool = FALSE,
                                            !.healthy = TRUE])
            /\ Goto(t, "open")
    /\ UNCHANGED <<kvVars, cfgVars, tokenVars, idVars, result, started,
                   assigned,
                   closeVars, netVars>>

\* the slot a new connection gets
FreeSlot(cs) ==
    CHOOSE c \in Conns : ~cs[c].open /\ \A d \in Conns : ~cs[d].open => c <= d

\* _open_unix_socket: the daemon accepts the connection
OpenUnixSocket(t) ==
    /\ pc[t] = "open"
    /\ \E c \in Conns : ~conn[c].open
    /\ conn' = [conn EXCEPT ![FreeSlot(conn)] =
                               [NoConnState EXCEPT !.open = TRUE]]
    /\ SetFrame(t, [frame[t] EXCEPT !.s = FreeSlot(conn)])
    /\ Goto(t, "send")
    /\ UNCHANGED <<kvVars, clientVars, result, started, assigned, closeVars,
                   faults>>

\* _open_unix_socket raises (no socket file, connection refused, timeout):
\* s stays None, the finally clause releases nothing
OpenFails(t) ==
    /\ pc[t] = "open"
    /\ Fault
    /\ AfterAttempt(t, Fail(frame[t], "connect", TRUE))
    /\ UNCHANGED <<kvVars, clientVars, started, assigned, closeVars, conn>>

\* ------------------------------------------------ _release_unix_socket
\* the finally clause when the attempt ended with frame f and connections cs:
\* an unhealthy socket is closed at once, a healthy one goes to the pool lock
Release(t, f, cs) ==
    IF ~f.healthy
    THEN /\ conn' = CloseConn(cs, f.s)
         /\ AfterAttempt(t, f)
    ELSE /\ conn' = cs
         /\ SetFrame(t, f)
         /\ Goto(t, "release")
         /\ UNCHANGED result

\* ------------------------------------------------- one attempt of _call
\* s.sendall(payload) succeeds: the request line reaches the daemon
Send(t) ==
    /\ pc[t] = "send"
    /\ ~conn[frame[t].s].peerClosed
    /\ conn' = [conn EXCEPT ![frame[t].s].inq = Append(@, frame[t].request)]
    /\ SetFrame(t, [frame[t] EXCEPT !.buffer = <<>>])
    /\ Goto(t, "recv")
    /\ UNCHANGED <<kvVars, clientVars, result, started, assigned, closeVars,
                   faults>>

\* the broken pipe is raised, but healthy is left True
SendFailsKeepsHealthy(t) ==
    /\ pc[t] = "send"
    /\ conn[frame[t].s].peerClosed
    /\ Release(t, Fail(frame[t], "send", TRUE), conn)
    /\ UNCHANGED <<kvVars, clientVars, started, assigned, closeVars, faults>>

\* s.sendall(payload) raises OSError: broken pipe, the daemon end is closed
SendFails(t) ==
    /\ pc[t] = "send"
    /\ conn[frame[t].s].peerClosed
    /\ Release(t, [Fail(frame[t], "send", TRUE) EXCEPT !.healthy = FALSE], conn)
    /\ UNCHANGED <<kvVars, clientVars, started, assigned, closeVars, faults>>

\* a response with an error envelope handled like a transport failure
DecodeLineRetriesError(f) ==
    LET line == FirstLine(f.buffer)
        d == Decode(line)
    IN IF d = "ok" /\ Parse(line).error = 0
       THEN [f EXCEPT !.pend = "return", !.resp = Parse(line)]
       ELSE IF d = "ok" THEN Fail(f, "app", TRUE)
       ELSE IF d = "json"
       THEN [Fail(f, "json", TRUE) EXCEPT !.healthy = FALSE]
       ELSE Fail(f, "utf8", FALSE)

\* a response with an error envelope marks the connection unhealthy
DecodeLineErrorUnhealthy(f) ==
    LET line == FirstLine(f.buffer)
        d == Decode(line)
    IN IF d = "ok"
       THEN [f EXCEPT !.pend = "return", !.resp = Parse(line),
                      !.healthy = (Parse(line).error = 0)]
       ELSE IF d = "json"
       THEN [Fail(f, "json", TRUE) EXCEPT !.healthy = FALSE]
       ELSE Fail(f, "utf8", FALSE)

\* lines 161-165: split the first line off the buffer and decode it
DecodeLine(f) ==
    LET line == FirstLine(f.buffer)
        d == Decode(line)
    IN IF d = "ok" THEN [f EXCEPT !.pend = "return", !.resp = Parse(line)]
       ELSE IF d = "json"
       THEN [Fail(f, "json", TRUE) EXCEPT !.healthy = FALSE]
       ELSE Fail(f, "utf8", FALSE)

\* s.recv(4096) returns the first bytes of the daemon's answer, no newline yet;
\* an answer that arrives in pieces counts as a transport incident
RecvPart(t) ==
    /\ pc[t] = "recv"
    /\ ~conn[frame[t].s].peerClosed
    /\ conn[frame[t].s].inq # <<>>
    /\ frame[t].buffer = <<>>
    /\ Fault
    /\ SetFrame(t, [frame[t] EXCEPT !.buffer = <<Part>>])
    /\ UNCHANGED <<kvVars, clientVars, pc, result, started, assigned, closeVars,
                   conn>>

\* s.recv(4096) returns more bytes and still no newline: buffer += chunk and
\* the loop goes round again; a buffer of more than MaxChunks chunks without
\* a newline is stood for by one chunk
RecvMore(t) ==
    /\ pc[t] = "recv"
    /\ ~conn[frame[t].s].peerClosed
    /\ conn[frame[t].s].inq # <<>>
    /\ frame[t].buffer # <<>>
    /\ SetFrame(t, [frame[t] EXCEPT
                       !.buffer = IF Len(@) < MaxChunks THEN Append(@, Part)
                                  ELSE <<Part>>])
    /\ UNCHANGED <<kvVars, clientVars, pc, result, started, assigned,
                   closeVars, netVars>>

\* s.recv(4096) returns the rest of the line the daemon wrote for the oldest
\* request on the connection: the loop ends and the line is decoded
RecvLine(t, kind) ==
    /\ pc[t] = "recv"
    /\ ~conn[frame[t].s].peerClosed
    /\ conn[frame[t].s].inq # <<>>
    /\ IF kind \in {"badjson", "badutf8"} THEN Fault ELSE UNCHANGED faults
    /\ LET c == frame[t].s
           f == [frame[t] EXCEPT
                    !.buffer = @ \o <<Body(Head(conn[c].inq).id, kind), Nl>>]
       IN /\ HasNl(f.buffer)
          /\ Release(t, DecodeLine(f), [conn EXCEPT ![c].inq = Tail(@)])
    /\ UNCHANGED <<kvVars, clientVars, started, assigned, closeVars>>

\* the empty chunk raises, but healthy is left True
RecvEofKeepsHealthy(t) ==
    /\ pc[t] = "recv"
    /\ conn[frame[t].s].peerClosed
    /\ Release(t, Fail(frame[t], "reset", TRUE),
               [conn EXCEPT ![frame[t].s].eof = TRUE])
    /\ UNCHANGED <<kvVars, clientVars, started, assigned, closeVars, faults>>

\* s.recv(4096) returns b"": the daemon closed the socket
RecvEof(t) ==
    /\ pc[t] = "recv"
    /\ conn[frame[t].s].peerClosed
    /\ Release(t, [Fail(frame[t], "reset", TRUE) EXCEPT !.healthy = FALSE],
               [conn EXCEPT ![frame[t].s].eof = TRUE])
    /\ UNCHANGED <<kvVars, clientVars, started, assigned, closeVars, faults>>

\* the timeout raises, but healthy is left True
RecvTimeoutKeepsHealthy(t) ==
    /\ pc[t] = "recv"
    /\ ~conn[frame[t].s].peerClosed
    /\ Fault
    /\ Release(t, Fail(frame[t], "timeout", TRUE), conn)
    /\ UNCHANGED <<kvVars, clientVars, started, assigned, closeVars>>

\* s.recv(4096) raises: nothing arrived within request_timeout
RecvTimeout(t) ==
    /\ pc[t] = "recv"
    /\ ~conn[frame[t].s].peerClosed
    /\ Fault
    /\ Release(t, [Fail(frame[t], "timeout", TRUE) EXCEPT !.healthy = FALSE],
               conn)
    /\ UNCHANGED <<kvVars, clientVars, started, assigned, closeVars>>

ReleaseEnter(t) ==
    /\ pc[t] = "release"
    /\ pool_lock = Free
    /\ pool_lock' = t
    /\ Goto(t, "rel_locked")
    /\ UNCHANGED <<kvVars, cfgVars, tokenVars, idVars, pool, frame, result,
                   started,
                   assigned, closeVars, netVars>>

\* "<=" instead of "<"
HasRoomOffByOne(p, size) == Len(p) <= size

\* the test the pool makes before it takes a socket back
HasRoom(p, size) == Len(p) < size

\* s.close() of the excess socket moved inside "with self._pool_lock"
ReleaseExitKeepsLock(t) ==
    /\ pc[t] = "rel_locked"
    /\ IF HasRoom(pool, pool_size)
       THEN /\ pool' = Append(pool, frame[t].s)
            /\ pool_lock' = Free
            /\ AfterAttempt(t, frame[t])
       ELSE /\ Goto(t, "rel_close")
            /\ UNCHANGED <<pool, pool_lock, frame, result>>
    /\ UNCHANGED <<kvVars, cfgVars, tokenVars, idVars, started, assigned,
                   closeVars, netVars>>

ReleaseExit(t) ==
    /\ pc[t] = "rel_locked"
    /\ pool_lock' = Free
    /\ IF HasRoom(pool, pool_size)
       THEN /\ pool' = Append(pool, frame[t].s)
            /\ AfterAttempt(t, frame[t])
       ELSE /\ Goto(t, "rel_close")
            /\ UNCHANGED <<pool, frame, result>>
    /\ UNCHANGED <<kvVars, cfgVars, tokenVars, idVars, started, assigned,
                   closeVars,
                   netVars>>

\* the pool was full and the socket is dropped without s.close()
ReleaseCloseLeaks(t) ==
    /\ pc[t] = "rel_close"
    /\ UNCHANGED conn
    /\ AfterAttempt(t, frame[t])
    /\ UNCHANGED <<kvVars, clientVars, started, assigned, closeVars, faults>>

\* the pool was full: close the socket
ReleaseClose(t) ==
    /\ pc[t] = "rel_close"
    /\ conn' = CloseConn(conn, frame[t].s)
    /\ AfterAttempt(t, frame[t])
    /\ UNCHANGED <<kvVars, clientVars, started, assigned, closeVars, faults>>

\* the request is built inside the loop: a retry takes a new id
SleepRebuilds(t) ==
    /\ pc[t] = "sleep"
    /\ request_id' = request_id + 1
    /\ SetFrame(t, [frame[t] EXCEPT !.attempt = @ + 1, !.sleeps = @ + 1,
                                    !.healthy = TRUE, !.buffer = <<>>,
                                    !.pend = "none", !.fromPool = FALSE,
                                    !.request.id = request_id])
    /\ Goto(t, "acquire")
    /\ UNCHANGED <<kvVars, cfgVars, tokenVars, request_id_lock, poolVars,
                   result, started, assigned, closeVars, netVars>>

\* time.sleep(self._retry_delay), then the next iteration of the loop
Sleep(t) ==
    /\ pc[t] = "sleep"
    /\ SetFrame(t, [frame[t] EXCEPT !.attempt = @ + 1, !.sleeps = @ + 1,
                                    !.healthy = TRUE, !.buffer = <<>>,
                                    !.pend = "none", !.fromPool = FALSE])
    /\ Goto(t, "acquire")
    /\ UNCHANGED <<kvVars, clientVars, result, started, assigned, closeVars,
                   netVars>>

\* ------------------------------------------------------------- close()
CloseEnter ==
    /\ cpc = "idle"
    /\ Events < MaxEvents
    /\ pool_lock = Free
    /\ pool_lock' = Closer
    /\ cpc' = "locked"
    /\ closes' = closes + 1
    /\ UNCHANGED <<kvVars, cfgVars, tokenVars, idVars, pool, callVars, sockets,
                   netVars>>

\* sockets = self._pool; self._pool = []; with nothing to close, close() returns
CloseSwap ==
    /\ cpc = "locked"
    /\ sockets' = pool
    /\ pool' = <<>>
    /\ pool_lock' = Free
    /\ conn' = [c \in Conns |-> [conn[c] EXCEPT !.old = conn[c].open]]
    /\ UNCHANGED faults
    /\ IF pool = <<>>
       THEN cpc' = "idle"
       ELSE cpc' = "closing"
    /\ UNCHANGED closes
    /\ UNCHANGED <<kvVars, cfgVars, tokenVars, idVars, callVars>>

\* one iteration of "for s in sockets: s.close()"; after the last one close()
\* returns
CloseSocket ==
    /\ cpc = "closing"
    /\ conn' = CloseConn(conn, Head(sockets))
    /\ sockets' = Tail(sockets)
    /\ IF Tail(sockets) = <<>>
       THEN cpc' = "idle"
       ELSE UNCHANGED cpc
    /\ UNCHANGED closes
    /\ UNCHANGED <<kvVars, clientVars, callVars, faults>>

\* ---------------------------------------------------------- the daemon
\* the daemon closes its end of a connection; what it had not answered is lost
DaemonClose(c) ==
    /\ conn[c].open
    /\ ~conn[c].peerClosed
    /\ Fault
    /\ conn' = [conn EXCEPT ![c].inq = <<>>, ![c].peerClosed = TRUE]
    /\ UNCHANGED <<kvVars, clientVars, callVars, closeVars>>

\* ------------------------------------------- put, get, delete, scan
\* the keys, scan prefixes and field dicts the caller uses
Keys == {<<"a">>, <<"a", "b">>}
Prefixes == {<<>>, <<"a">>, <<"a", "b">>, <<"b">>}
FieldDicts == {"v1", "v2"}

\* str.startswith
StartsWith(k, p) == Len(p) <= Len(k) /\ SubSeq(k, 1, Len(p)) = p

\* d.get(key, default)
DictGet(d, key, default) == IF key \in DOMAIN d THEN d[key] ELSE default

\* the daemon as a key-value store: the store after the request and the
\* result it answers with
Handle(st, req) ==
    LET p == req.params IN
    IF req.method = "put"
    THEN [store |-> [k \in DOMAIN st \cup {p.key} |->
                        IF k = p.key THEN p.fields ELSE st[k]],
          result |-> [ok |-> TRUE]]
    ELSE IF req.method = "get"
    THEN [store |-> st,
          result |-> IF p.key \in DOMAIN st
                     THEN [key |-> p.key, fields |-> st[p.key]]
                     ELSE Null]
    ELSE IF req.method = "delete"
    THEN [store |-> [k \in DOMAIN st \ {p.key} |-> st[k]],
          result |-> [ok |-> TRUE]]
    ELSE [store |-> st,
          result |-> [items |-> {[key |-> k, fields |-> st[k]] :
                                    k \in {j \in DOMAIN st :
                                              StartsWith(j, p.prefix)}}]]

\* the request _call builds for a method and its params
Request(method, params) ==
    [method |-> method, params |-> params, id |-> request_id,
     token |-> GetToken(token, files).ret]

\* _unwrap_result of a response without an error: response.get('result')
ResultOf(resp) == resp.result

\* one round trip of _call on a transport without faults: the id is used up,
\* the daemon handles the request and its answer comes back
RoundTrip(method, params) ==
    /\ started < MaxKvCalls
    /\ \A t \in Threads : pc[t] = "idle"
    /\ started' = started + 1
    /\ request_id' = request_id + 1
    /\ assigned' = Append(assigned, request_id)
    /\ store' = Handle(store, Request(method, params)).store
    /\ UNCHANGED <<cfgVars, tokenVars, request_id_lock, poolVars, pc, frame,
                   result, closeVars, netVars>>

Response(method, params) ==
    [id |-> request_id,
     result |-> Handle(store, Request(method, params)).result]

\* put(key, fields)
Put(key, fields) ==
    /\ RoundTrip("put", [key |-> key, fields |-> fields])
    /\ kv' = [NoKv EXCEPT !.op = "put", !.key = key,
                !.ok = DictGet(ResultOf(Response("put",
                                   [key |-> key, fields |-> fields])),
                               "ok", FALSE)]
    /\ written' = [k \in DOMAIN written \cup {key} |->
                      IF k = key THEN [live |-> TRUE, fields |-> fields]
                      ELSE written[k]]

\* get(key)
Get(key) ==
    /\ RoundTrip("get", [key |-> key])
    /\ kv' = [NoKv EXCEPT !.op = "get", !.key = key,
                !.rec = ResultOf(Response("get", [key |-> key]))]
    /\ UNCHANGED written

\* delete sending the method name of get
DeleteCallsGet(key) ==
    /\ RoundTrip("get", [key |-> key])
    /\ kv' = [NoKv EXCEPT !.op = "delete", !.key = key,
                !.ok = DictGet(ResultOf(Response("get", [key |-> key])),
                               "ok", FALSE)]
    /\ written' = [k \in DOMAIN written |->
                      IF k = key THEN [written[k] EXCEPT !.live = FALSE]
                      ELSE written[k]]

\* delete(key)
Delete(key) ==
    /\ RoundTrip("delete", [key |-> key])
    /\ kv' = [NoKv EXCEPT !.op = "delete", !.key = key,
                !.ok = DictGet(ResultOf(Response("delete", [key |-> key])),
                               "ok", FALSE)]
    /\ written' = [k \in DOMAIN written |->
                      IF k = key THEN [written[k] EXCEPT !.live = FALSE]
                      ELSE written[k]]

\* scan(prefix)
Scan(prefix) ==
    /\ RoundTrip("scan", [prefix |-> prefix])
    /\ kv' = [NoKv EXCEPT !.op = "scan", !.key = prefix,
                !.items = DictGet(ResultOf(Response("scan",
                                      [prefix |-> prefix])),
                                  "items", {})]
    /\ UNCHANGED written

\* ------------------------------------------------------- specification
Next ==
    \/ \E t \in Threads : NextRequestIdEnter(t)
    \/ \E t \in Threads : NextRequestIdExit(t)
    \/ \E t \in Threads : BuildRequest(t)
    \/ \E t \in Threads : AcquireEnter(t)
    \/ \E t \in Threads : AcquireExit(t)
    \/ \E t \in Threads : OpenUnixSocket(t)
    \/ \E t \in Threads : OpenFails(t)
    \/ \E t \in Threads : Send(t)
    \/ \E t \in Threads : SendFails(t)
    \/ \E t \in Threads : RecvPart(t)
    \/ \E t \in Threads, kind \in Kinds : RecvLine(t, kind)
    \/ \E t \in Threads : RecvEof(t)
    \/ \E t \in Threads : RecvTimeout(t)
    \/ \E t \in Threads : ReleaseEnter(t)
    \/ \E t \in Threads : ReleaseExit(t)
    \/ \E t \in Threads : ReleaseClose(t)
    \/ \E t \in Threads : Sleep(t)
    \/ CloseEnter
    \/ CloseSwap
    \/ CloseSocket
    \/ \E c \in Conns : DaemonClose(c)

Spec == Init /\ [][Next]_vars

\* the steps of calls that meet no transport fault
NextToken ==
    \/ \E t \in Threads : NextRequestIdEnter(t)
    \/ \E t \in Threads : NextRequestIdExit(t)
    \/ \E t \in Threads : BuildRequest(t)
    \/ \E t \in Threads : AcquireEnter(t)
    \/ \E t \in Threads : AcquireExit(t)
    \/ \E t \in Threads : OpenUnixSocket(t)
    \/ \E t \in Threads : Send(t)
    \/ \E t \in Threads : RecvLine(t, "result")
    \/ \E t \in Threads : ReleaseEnter(t)
    \/ \E t \in Threads : ReleaseExit(t)
    \/ \E t \in Threads : ReleaseClose(t)

SpecToken == InitToken /\ [][NextToken]_vars

\* the steps of caller t, of close(), and the specification of a client whose
\* threads all keep running, against a daemon that may also send bytes
\* without a newline for as long as it likes
CallStep(t) ==
    \/ NextRequestIdEnter(t)
    \/ NextRequestIdExit(t)
    \/ BuildRequest(t)
    \/ AcquireEnter(t)
    \/ AcquireExit(t)
    \/ OpenUnixSocket(t)
    \/ OpenFails(t)
    \/ Send(t)
    \/ SendFails(t)
    \/ RecvPart(t)
    \/ RecvMore(t)
    \/ \E kind \in Kinds : RecvLine(t, kind)
    \/ RecvEof(t)
    \/ RecvTimeout(t)
    \/ ReleaseEnter(t)
    \/ ReleaseExit(t)
    \/ ReleaseClose(t)
    \/ Sleep(t)

CloseStep == CloseEnter \/ CloseSwap \/ CloseSocket

NextLive ==
    \/ \E t \in Threads : CallStep(t)
    \/ CloseStep
    \/ \E c \in Conns : DaemonClose(c)

SpecLive ==
    /\ Init
    /\ [][NextLive]_vars
    /\ \A t \in Threads : WF_vars(CallStep(t))
    /\ WF_vars(CloseStep)

\* calls without transport faults of clients whose token files change
NextFs ==
    \/ \E t \in Threads : NextRequestIdEnter(t)
    \/ \E t \in Threads : NextRequestIdExit(t)
    \/ \E t \in Threads : GetTokenCheck(t)
    \/ \E t \in Threads : GetTokenProbe(t)
    \/ \E t \in Threads : AcquireEnter(t)
    \/ \E t \in Threads : AcquireExit(t)
    \/ \E t \in Threads : OpenUnixSocket(t)
    \/ \E t \in Threads : Send(t)
    \/ \E t \in Threads : RecvLine(t, "result")
    \/ \E t \in Threads : ReleaseEnter(t)
    \/ \E t \in Threads : ReleaseExit(t)
    \/ \E t \in Threads : ReleaseClose(t)
    \/ \E p \in Paths, f \in FileStates : FsChange(p, f)

SpecFs == InitFs /\ [][NextFs]_vars

\* one caller using put, get, delete and scan, one call after the other,
\* against a daemon that answers every request
NextKv ==
    \/ \E k \in Keys, f \in FieldDicts : Put(k, f)
    \/ \E k \in Keys : Get(k)
    \/ \E k \in Keys : Delete(k)
    \/ \E p \in Prefixes : Scan(p)

SpecKv == Init /\ [][NextKv]_vars
\* one caller making one call after the other, against a daemon that accepts
\* every new connection and answers every request it receives correctly
Caller == 1

NextStale ==
    \/ NextRequestIdEnter(Caller)
    \/ NextRequestIdExit(Caller)
    \/ BuildRequest(Caller)
    \/ AcquireEnter(Caller)
    \/ AcquireExit(Caller)
    \/ OpenUnixSocket(Caller)
    \/ Send(Caller)
    \/ SendFails(Caller)
    \/ RecvLine(Caller, "result")
    \/ ReleaseEnter(Caller)
    \/ ReleaseExit(Caller)
    \/ Sleep(Caller)

SpecStale == InitStale /\ [][NextStale]_vars

\* ------------------------------------------------------------- properties
ReleasePcs == {"release", "rel_locked", "rel_close"}
InCall(t) == pc[t] # "idle"
Held(t) == frame[t].s # NoConn
InPool(c) == \E i \in 1..Len(pool) : pool[i] = c
InSockets(c) == \E i \in 1..Len(sockets) : sockets[i] = c
PoolCap == Max(1, cfgPoolSize)

\* C1: after N calls have been given an id, by whatever interleaving of the
\* callers, the ids given are exactly 1..N: the first is 1, none is given
\* twice, none is skipped, and no two calls in flight carry the same id.
IdsAreOneToN ==
    /\ {assigned[i] : i \in 1..Len(assigned)} = 1..Len(assigned)
    /\ \A i, j \in 1..Len(assigned) : i # j => assigned[i] # assigned[j]
    /\ Len(assigned) >= 1 => assigned[1] = 1
    /\ \A t, u \in Threads :
           (t # u /\ frame[t].request.id # 0) =>
               frame[t].request.id # frame[u].request.id

\* two callers are inside _call at once, each with its id
IdsWitness ==
    \E t, u \in Threads :
        /\ t # u
        /\ frame[t].request.id # 0
        /\ frame[u].request.id # 0

\* C2: the idle pool never holds more than max(1, pool_size) connections; a
\* release that finds the pool at capacity leaves the pool as it is and goes
\* on to close the connection.
PoolBound ==
    /\ [](Len(pool) <= PoolCap)
    /\ [][\A t \in Threads :
            /\ (pc[t] = "rel_locked" /\ pc'[t] # "rel_locked"
                    /\ Len(pool) >= PoolCap)
                  => (pool' = pool /\ pc'[t] = "rel_close")
            /\ (pc[t] = "rel_close" /\ pc'[t] # "rel_close")
                  => (pool' = pool /\ ~conn'[frame[t].s].open)]_vars

\* a healthy connection is about to be closed because the pool is full
PoolFullWitness ==
    \E t \in Threads :
        pc[t] = "rel_close" /\ frame[t].healthy /\ Len(pool) = PoolCap

\* C3: a call that ends by raising a transport error has made exactly
\* max_retries + 1 attempts and raises the error of the last of them.
RetryExhaustion ==
    \A t \in Threads :
        result[t].status = "raised" =>
            /\ result[t].attempts = max_retries + 1
            /\ result[t].errAt = max_retries

\* C4: once the first attempt has read a well-formed line with an error
\* envelope, the call is on its way out: it holds the response to return, has
\* not slept, and ends, whatever max_retries is, after that one attempt with a
\* failure that carries the code the daemon sent.
ErrLineRead(f) == \E i \in 1..Len(f.buffer) : f.buffer[i].kind = "error"

NoRetryOnAppError ==
    /\ [](\A t \in Threads :
            (ErrLineRead(frame[t]) /\ frame[t].attempt = 0) =>
                /\ pc[t] \in ReleasePcs
                /\ frame[t].pend = "return"
                /\ frame[t].sleeps = 0
                /\ frame[t].resp.error = ErrCode(frame[t].request.id))
    /\ [][\A t \in Threads :
            (ErrLineRead(frame[t]) /\ frame[t].attempt = 0
                    /\ pc'[t] \notin ReleasePcs) =>
                /\ pc'[t] = "idle"
                /\ result'[t].status = "app_error"
                /\ result'[t].attempts = 1
                /\ result'[t].sleeps = 0
                /\ result'[t].code = frame[t].resp.error]_vars

\* a call of a client that allows retries ended with the daemon's error
AppErrorWitness ==
    \E t \in Threads :
        /\ max_retries >= 1
        /\ result[t].status = "app_error"
        /\ result[t].attempts = 1

\* C5: a connection on which recv returned b"" is not open any more once the
\* step that saw it is over: it is not in the idle pool, not in the hands of
\* close(), and no call holds it.
EofEvicted ==
    \A c \in Conns :
        conn[c].eof =>
            /\ ~conn[c].open
            /\ ~InPool(c)
            /\ ~InSockets(c)
            /\ \A t \in Threads : frame[t].s # c

\* a call that saw the empty read has acquired a connection for its retry
EofWitness ==
    \E t \in Threads :
        frame[t].err = "reset" /\ frame[t].attempt >= 1 /\ Held(t)

\* C6: no connection is held by two calls, a held connection is in neither
\* the idle pool nor the list close() is closing, the idle pool holds no
\* connection twice, and a connection carries at most one unanswered request.
ExclusiveOwnership ==
    /\ \A t, u \in Threads : (t # u /\ Held(t)) => frame[t].s # frame[u].s
    /\ \A t \in Threads :
           Held(t) => /\ conn[frame[t].s].open
                      /\ ~InPool(frame[t].s)
                      /\ ~InSockets(frame[t].s)
    /\ \A i, j \in 1..Len(pool) : i # j => pool[i] # pool[j]
    /\ \A c \in Conns : Len(conn[c].inq) <= 1
    /\ \A c \in Conns :
           conn[c].inq # <<>> =>
               \E t \in Threads : frame[t].s = c /\ pc[t] = "recv"

\* two calls wait for their answers at once, each on a connection of its own
ExclusiveWitness ==
    \E t, u \in Threads :
        /\ t # u
        /\ Held(t)
        /\ Held(u)
        /\ pc[t] = "recv"
        /\ pc[u] = "recv"

\* C7: with a daemon that answers the requests of a connection one line each,
\* in order, the response a call returns is the answer to its own request.
ResponseMatchesRequest ==
    \A t \in Threads :
        /\ frame[t].pend = "return" => frame[t].resp.id = frame[t].request.id
        /\ result[t].status \in {"result", "app_error"} =>
               result[t].respId = result[t].id

\* a call returned a response on its second attempt, on a pooled connection
\* another call had used
ResponseWitness ==
    \E t \in Threads :
        /\ frame[t].pend = "return"
        /\ frame[t].attempt = 1
        /\ frame[t].fromPool

\* C8: once close() has returned and no call is in flight, no connection that
\* was open when close() ran is still open.
CloseLeavesNothingOpen ==
    (closes >= 1 /\ cpc = "idle" /\ \A t \in Threads : ~InCall(t)) =>
        \A c \in Conns : ~(conn[c].open /\ conn[c].old)

\* C9: every attempt after the first runs on a connection opened for it,
\* never on one taken from the idle pool.
RetryOnFreshConnection ==
    \A t \in Threads :
        (frame[t].attempt >= 1 /\ Held(t)) => ~frame[t].fromPool

\* C10 as stated: with a token argument (any string) every request carries
\* it and no token file is read; without one the first existing candidate
\* file gives the token, and no file means no token.
FileToken(fs) ==
    IF FirstExisting(fs) # 0
    THEN Tok(Strip(fs[FirstExisting(fs)].content))
    ELSE NoToken

Built(t) == pc[t] \notin {"idle", "id_locked", "build", "probe"}

TokenPrecedence ==
    /\ cfgToken.some => fileReads = 0
    /\ \A t \in Threads :
           Built(t) =>
               frame[t].request.token =
                   IF cfgToken.some THEN cfgToken ELSE FileToken(files)

\* C10 amended: the same for a token argument that is a non-empty string; an
\* empty string counts as no token argument.
TokenPrecedenceNonEmpty ==
    /\ Truthy(cfgToken) => fileReads = 0
    /\ \A t \in Threads :
           Built(t) =>
               frame[t].request.token =
                   IF Truthy(cfgToken) THEN cfgToken ELSE FileToken(files)
    /\ \A c \in Conns :
           \A i \in 1..Len(conn[c].inq) :
               conn[c].inq[i].token =
                   IF Truthy(cfgToken) THEN cfgToken ELSE FileToken(files)

\* a request with the token argument is on the wire although token files exist
TokenWitness ==
    /\ Truthy(cfgToken)
    /\ \A p \in Paths : files[p].exists
    /\ \E c \in Conns : conn[c].inq # <<>>

\* C11 as stated: once a call has come out of _get_token, no call starts
\* probing the candidate files any more, and the requests of the calls in
\* flight carry one token value, whatever happens to the token files.
Resolved ==
    Len(assigned) > Cardinality({t \in Threads : pc[t] \in {"build", "probe"}})

TokenResolvedOnce ==
    /\ [](\A t, u \in Threads :
            (Built(t) /\ Built(u)) =>
                frame[t].request.token = frame[u].request.token)
    /\ [][Resolved =>
            \A t \in Threads : ~(pc[t] = "build" /\ pc'[t] = "probe")]_vars

\* C11 amended: a call that enters _get_token while a non-empty token is
\* cached opens no file and carries the cached token; the cached token stays
\* what it is unless a call that found the cache empty is still probing; a
\* call that finds no non-empty token cached probes the files again.
TokenCachedOnceFound ==
    [][/\ \A t \in Threads :
            (Truthy(token) /\ pc[t] = "build" /\ pc'[t] # "build") =>
                /\ pc'[t] = "acquire"
                /\ frame'[t].request.token = token
                /\ fileReads' = fileReads
       /\ (Truthy(token) /\ \A t \in Threads : pc[t] # "probe") =>
              token' = token
       /\ \A t \in Threads :
            (~Truthy(token) /\ pc[t] = "build" /\ pc'[t] # "build") =>
                pc'[t] = "probe"]_vars

\* the first call read the token from a file and has returned, the file was
\* changed, and the second call carries the token the first one cached
TokenCacheWitness ==
    \E t, u \in Threads :
        /\ ~Truthy(cfgToken)
        /\ fileReads = 1
        /\ fsWrites = 1
        /\ result[u].status = "result"
        /\ result[u].id = 1
        /\ Built(t)
        /\ frame[t].request.id = 2
        /\ frame[t].request.token = token
        /\ token # FileToken(files)

\* C12: put returns true, and delete of a key that was put returns true; get
\* returns the record of the fields last put under the key, and nothing when
\* the key was never put or was deleted since; scan lists exactly the keys
\* put and not deleted since that start with the prefix.
Live == {k \in DOMAIN written : written[k].live}

RoundTripHolds ==
    /\ kv.op = "put" => kv.ok
    /\ (kv.op = "delete" /\ kv.key \in DOMAIN written) => kv.ok
    /\ kv.op = "get" =>
           IF kv.key \in Live
           THEN kv.rec = [key |-> kv.key, fields |-> written[kv.key].fields]
           ELSE kv.rec = Null
    /\ kv.op = "scan" =>
           {i.key : i \in kv.items} = {k \in Live : StartsWith(k, kv.key)}

\* two keys were put, one was deleted, and the scan of their common prefix
\* lists the other one only
RoundTripWitness ==
    /\ kv.op = "scan"
    /\ kv.items # {}
    /\ \E k \in DOMAIN written : StartsWith(k, kv.key) /\ ~written[k].live

\* C13: an attempt that read a line it could not decode never hands its
\* connection to the healthy release path, and a call that ends with a decode
\* error has used all its attempts.
DecodeErrors == {"json", "utf8"}

DecodeFailureIsTransient ==
    \A t \in Threads :
        /\ (pc[t] \in ReleasePcs /\ frame[t].pend # "return") =>
               frame[t].err \notin DecodeErrors
        /\ (result[t].status = "raised" /\ result[t].err \in DecodeErrors) =>
               result[t].attempts = max_retries + 1

\* C14: an attempt that read a well-formed line, result or error envelope,
\* releases its connection as healthy: the call returns only out of the
\* release under the pool lock, which appends the open connection to the pool
\* when the pool has room, and otherwise goes on to close it.
HealthyRelease ==
    /\ [](\A t \in Threads :
            frame[t].pend = "return" =>
                /\ frame[t].healthy
                /\ pc[t] \in ReleasePcs
                /\ conn[frame[t].s].open)
    /\ [][\A t \in Threads :
            /\ (result[t].status = "none"
                    /\ result'[t].status \in {"result", "app_error"}) =>
                  pc[t] \in {"rel_locked", "rel_close"}
            /\ (frame[t].pend = "return" /\ pc[t] = "rel_locked"
                    /\ pc'[t] # "rel_locked") =>
                  IF Len(pool) < pool_size
                  THEN /\ pool' = Append(pool, frame[t].s)
                       /\ conn'[frame[t].s].open
                       /\ pc'[t] = "idle"
                  ELSE /\ pool' = pool
                       /\ pc'[t] = "rel_close"
            /\ (frame[t].pend = "return" /\ pc[t] = "rel_close"
                    /\ pc'[t] # "rel_close") =>
                  /\ ~conn'[frame[t].s].open
                  /\ pool' = pool
                  /\ pc'[t] = "idle"]_vars

\* the only call so far ended with the daemon's error and its connection is
\* open in the idle pool
HealthyReleaseWitness ==
    /\ started = 1
    /\ \E t \in Threads : result[t].status = "app_error"
    /\ Len(pool) = 1
    /\ conn[pool[1]].open

\* C15: a call sleeps only between two attempts: when it starts to sleep the
\* connection of the failed attempt is closed and out of the pool, while it
\* sleeps it holds no connection and has an attempt left, and at every moment,
\* also when it has ended, it has slept once less than it has made attempts.
SleepBetweenAttempts ==
    /\ [](\A t \in Threads :
            /\ InCall(t) => frame[t].sleeps = frame[t].attempt
            /\ pc[t] = "sleep" =>
                   /\ frame[t].s = NoConn
                   /\ frame[t].pend = "retry"
                   /\ frame[t].attempt < max_retries
            /\ result[t].status # "none" =>
                   /\ result[t].sleeps = result[t].attempts - 1
                   /\ result[t].attempts <= max_retries + 1)
    /\ [][\A t \in Threads :
            (pc[t] # "sleep" /\ pc'[t] = "sleep" /\ Held(t)) =>
                /\ ~conn'[frame[t].s].open
                /\ \A i \in 1..Len(pool') : pool'[i] # frame[t].s]_vars

\* a call failed twice, slept once in between and raised
SleepWitness ==
    \E t \in Threads :
        /\ result[t].status = "raised"
        /\ result[t].attempts = 2
        /\ result[t].sleeps = 1

\* C16: close() takes every idle connection out of the pool under the lock
\* and closes them one by one; no call holds a connection close() has taken;
\* and when close() returns while no call is in flight the idle pool is empty.
CloseDrainsPool ==
    /\ [](\A c \in Conns :
            InSockets(c) =>
                /\ ~InPool(c)
                /\ \A t \in Threads : frame[t].s # c)
    /\ [][/\ (cpc = "locked" /\ cpc' # "locked") =>
                (sockets' = pool /\ pool' = <<>>)
          /\ (cpc = "closing" /\ sockets' # sockets) =>
                (~conn'[Head(sockets)].open /\ sockets' = Tail(sockets))
          /\ (cpc # "idle" /\ cpc' = "idle"
                  /\ \A t \in Threads : ~InCall(t)) =>
                (pool' = <<>> /\ sockets' = <<>>)]_vars

\* C17 as stated: every open connection is in the idle pool or held by
\* exactly one call in flight, never both; there are no more connections held
\* than calls in flight; with no call in flight every open connection is in
\* the idle pool.
Holders(c) == {t \in Threads : frame[t].s = c}
OpenConns == {c \in Conns : conn[c].open}

PooledOrHeld ==
    /\ \A c \in OpenConns :
           \/ InPool(c) /\ Holders(c) = {}
           \/ ~InPool(c) /\ Cardinality(Holders(c)) = 1
    /\ Cardinality({c \in OpenConns : Holders(c) # {}})
           <= Cardinality({t \in Threads : InCall(t)})
    /\ (\A t \in Threads : ~InCall(t)) => \A c \in OpenConns : InPool(c)

\* C17 amended: every open connection is in exactly one place: the idle
\* pool, the hands of one call in flight, or the list a running close() is
\* closing; there are no more connections held than calls in flight; with no
\* call in flight and no close() running every open connection is in the pool.
PooledHeldOrClosing ==
    /\ \A c \in OpenConns :
           \/ InPool(c) /\ Holders(c) = {} /\ ~InSockets(c)
           \/ ~InPool(c) /\ Cardinality(Holders(c)) = 1 /\ ~InSockets(c)
           \/ ~InPool(c) /\ Holders(c) = {} /\ InSockets(c) /\ cpc = "closing"
    /\ \A t \in Threads : Held(t) => InCall(t)
    /\ Cardinality({c \in OpenConns : Holders(c) # {}})
           <= Cardinality({t \in Threads : InCall(t)})
    /\ (cpc = "idle" /\ \A t \in Threads : ~InCall(t)) =>
           \A c \in OpenConns : InPool(c)

\* close() is about to close a connection it took from the pool while a call
\* holds another one
ClosingWitness ==
    /\ cpc = "closing"
    /\ \E c \in OpenConns : InSockets(c)
    /\ \E t \in Threads : Held(t) /\ conn[frame[t].s].open

\* C18: the pool lock is held exactly by a call that is popping from or
\* appending to the pool and by close() while it swaps the pool out, never by
\* a call that connects, sends, receives, sleeps or closes a connection; the
\* id lock is held exactly by a call inside _next_request_id; nobody holds
\* both, and whoever holds a lock can go on and release it.
LocksShortHeld ==
    /\ \A t \in Threads :
           /\ pool_lock = t <=> pc[t] \in {"acq_locked", "rel_locked"}
           /\ request_id_lock = t <=> pc[t] = "id_locked"
           /\ ~(pool_lock = t /\ request_id_lock = t)
           /\ pool_lock = t =>
                  ENABLED (AcquireExit(t) \/ ReleaseExit(t))
           /\ request_id_lock = t => ENABLED NextRequestIdExit(t)
    /\ pool_lock = Closer <=> cpc = "locked"
    /\ pool_lock = Closer => ENABLED CloseSwap
    /\ request_id_lock # Closer

\* one call waits for its answer while another holds the pool lock
LocksWitness ==
    \E t, u \in Threads :
        /\ t # u
        /\ pc[t] = "recv"
        /\ pool_lock = u

\* C19: every call that has started comes to an end, and it has not made
\* more than max_retries + 1 attempts when it does.
CallsComplete ==
    /\ \A t \in Threads : InCall(t) ~> ~InCall(t)
    /\ [](\A t \in Threads :
            result[t].status # "none" =>
                result[t].attempts <= max_retries + 1)

\* C20: from the moment its request is built until the call ends the request
\* stays what it is, every send puts exactly that request on the connection,
\* and the id counter is one more than the number of calls that took an id,
\* whatever the number of attempts.
RequestBuiltOnce ==
    /\ [](/\ request_id = 1 + Len(assigned)
          /\ Len(assigned) + Cardinality({t \in Threads : pc[t] = "id_locked"})
                 = started)
    /\ [][\A t \in Threads :
            /\ (Built(t) /\ InCall(t)') =>
                  frame'[t].request = frame[t].request
            /\ (pc[t] = "send" /\ pc'[t] = "recv") =>
                  conn'[frame[t].s].inq =
                      Append(conn[frame[t].s].inq, frame[t].request)]_vars

\* the second attempt of a call has sent the request again after the first
\* attempt failed with the request already written
ResentWitness ==
    \E t \in Threads :
        /\ pc[t] = "recv"
        /\ frame[t].attempt = 1
        /\ frame[t].err \in {"timeout", "reset", "json"}
        /\ conn[frame[t].s].inq = <<frame[t].request>>
        /\ request_id = started + 1

\* C21: one caller, the daemon has closed the k connections of the idle pool
\* and serves new ones. Every attempt that fails closes exactly one of the
\* stale connections and no other step changes their number; the first call
\* returns a result exactly when max_retries >= k, after k + 1 attempts, and
\* otherwise raises the connection error of its last attempt after
\* max_retries + 1 attempts, with k - max_retries - 1 stale connections left.
Stale(c) == conn[c].open /\ conn[c].peerClosed
StaleCount == Cardinality({c \in Conns : Stale(c)})
AttemptFails(t) == pc[t] = "send" /\ pc'[t] \in {"sleep", "idle"}

TypeOK ==
    /\ request_id \in 1..(MaxEvents + MaxKvCalls + 1)
    /\ pool_lock \in {Free, Closer} \cup Threads
    /\ request_id_lock \in {Free} \cup Threads
    /\ Len(pool) <= MaxConns
====
